---- MODULE Spec2Model ----
(***************************************************************************)
(* Model of src/main.py: the FastAPI service that keeps one conversation   *)
(* memory per session id in the process-wide dict `sessions`, runs a       *)
(* tool-calling agent loop (AgentExecutor, max_iterations=5) for every     *)
(* POST /chat, normalises the loop's raw output into the response text and *)
(* lets DELETE /session/{id} drop a session.                               *)
(*                                                                         *)
(* Scheduling: `chat` is an `async def` handler without any await, so it   *)
(* runs on the event loop thread from its first to its last statement;     *)
(* `clear_session` is a plain `def` handler, which FastAPI runs on a       *)
(* worker thread, so its statements interleave with those of chat and of   *)
(* other clear_session calls.                                              *)
(***************************************************************************)
EXTENDS Integers, Sequences, FiniteSets, TLC

(***************************************************************************)
(* Bounds of the model.                                                    *)
(***************************************************************************)
MaxChats == 2
MaxClearThreads == 2
MaxReasonLen == 3

Chats == 1..MaxChats
SessionIds == {"s1", "s2"}
NoChat == 0

(***************************************************************************)
(* Program constants.                                                      *)
(***************************************************************************)
MaxIterations == 5

(***************************************************************************)
(* Text.  A Python str is a sequence of characters; " " is the whitespace  *)
(* character, every other element is a non-blank token.                    *)
(***************************************************************************)
RECURSIVE LStrip(_)
LStrip(t) == IF t # <<>> /\ Head(t) = " " THEN LStrip(Tail(t)) ELSE t

RECURSIVE RStrip(_)
RStrip(t) ==
    IF t # <<>> /\ t[Len(t)] = " " THEN RStrip(SubSeq(t, 1, Len(t) - 1)) ELSE t

\* str.strip()
Strip(t) == RStrip(LStrip(t))

\* Python values as the normaliser sees them: isinstance(x, str), isinstance(x, list),
\* isinstance(x, dict), or anything else (which carries its str() form).
StrOut(t) == [kind |-> "str", text |-> t]
ListOut(fs) == [kind |-> "list", items |-> fs]
DictOut(d) == [kind |-> "dict", map |-> d]
OtherOut(t) == [kind |-> "other", repr |-> t]
TextFrag(t) == DictOut([text |-> StrOut(t)])
ContentFrag(v) == DictOut([content |-> v])
StrFrag(t) == StrOut(t)

\* str(x)
PyStr(v) ==
    CASE v.kind = "str" -> v.text
      [] v.kind = "other" -> v.repr
      [] v.kind = "list" -> <<"[..]">>
      [] OTHER -> <<"{..}">>

FallbackText ==
    <<"I processed your request but encountered an issue formatting the response. Please try again.">>

\* AgentExecutor's forced stop when max_iterations is used up
StoppedOutput == StrOut(<<"Agent stopped due to iteration limit or time limit.">>)

(***************************************************************************)
(* Tools (src/main.py:57-106).  The two random draws of lookup_order are   *)
(* parameters: days_ago of get_random_recent_date and the day offset of    *)
(* estimated_delivery.                                                     *)
(***************************************************************************)
DaysAgo == {1, 7}
EtaDays == {2, 5}

\* get_random_recent_date: today minus days_ago, as a date token
RecentDate(days_ago) == <<"today", 0 - days_ago>>

Orders(days_ago, eta) ==
    [o \in {"12345", "67890"} |->
        IF o = "12345"
        THEN [order_id |-> "12345",
              items |-> <<"Laptop", "Wireless Mouse">>,
              total |-> "$1,299.99",
              status |-> "Delivered",
              delivery_date |-> RecentDate(days_ago),
              tracking |-> "TRACK123"]
        ELSE [order_id |-> "67890",
              items |-> <<"Headphones">>,
              total |-> "$299.99",
              status |-> "In Transit",
              estimated_delivery |-> <<"today", eta>>,
              tracking |-> "TRACK456"]]

lookup_order(order_id, days_ago, eta) ==
    IF order_id \in DOMAIN Orders(days_ago, eta)
    THEN Orders(days_ago, eta)[order_id]
    ELSE [error |-> <<"Order ", order_id, " not found">>]

\* mutant: the default of line 99 whatever the order
RefundAmountDefault(order) == "$0.00"

\* order.get("total", "$0.00")
RefundAmount(order) == IF "total" \in DOMAIN order THEN order.total ELSE "$0.00"

\* mutant: the refund is processed without the test of lines 95-96
process_refund_unchecked(order_id, reason, days_ago, eta) ==
    [status |-> "success",
     refund_id |-> <<"REF-", order_id>>,
     amount |-> RefundAmount(lookup_order(order_id, days_ago, eta)),
     estimated_days |-> "3-5 business days",
     reason |-> reason]

\* mutant: the payload is stamped with the date drawn by lookup_order
process_refund_dated(order_id, reason, days_ago, eta) ==
    LET order == lookup_order(order_id, days_ago, eta)
    IN  IF "error" \in DOMAIN order
        THEN [error |-> <<"Cannot process refund - order ", order_id, " not found">>]
        ELSE [status |-> "success",
              refund_id |-> <<"REF-", order_id>>,
              amount |-> RefundAmount(order),
              estimated_days |-> "3-5 business days",
              reason |-> reason,
              date |-> RecentDate(days_ago)]

process_refund(order_id, reason, days_ago, eta) ==
    LET order == lookup_order(order_id, days_ago, eta)
    IN  IF "error" \in DOMAIN order
        THEN [error |-> <<"Cannot process refund - order ", order_id, " not found">>]
        ELSE [status |-> "success",
              refund_id |-> <<"REF-", order_id>>,
              amount |-> RefundAmount(order),
              estimated_days |-> "3-5 business days",
              reason |-> reason]

LookupCall(o) == [tool |-> "lookup_order", tool_input |-> [order_id |-> o]]
RefundCall(o, why) ==
    [tool |-> "process_refund", tool_input |-> [order_id |-> o, reason |-> why]]

\* tool.run of one requested call
RunTool(call, days_ago, eta) ==
    IF call.tool = "lookup_order"
    THEN lookup_order(call.tool_input.order_id, days_ago, eta)
    ELSE process_refund(call.tool_input.order_id, call.tool_input.reason,
                        days_ago, eta)

(***************************************************************************)
(* What the reasoning service may answer in one step: a list of tool calls *)
(* (executed in order), a final output, or a failure of the call.          *)
(***************************************************************************)
Decisions ==
    { <<LookupCall("99999"), RefundCall("99999", <<"damaged">>),
        RefundCall("12345", <<"damaged">>)>>,
      <<[tool |-> "process_refund", tool_input |-> [order_id |-> "12345"]]>> }

\* the argument schema of a tool (its signature): tool.run raises a validation
\* error when a declared argument is missing
ToolArgs(tool) ==
    IF tool = "lookup_order" THEN {"order_id"} ELSE {"order_id", "reason"}

ToolRaises(call) == ToolArgs(call.tool) # DOMAIN call.tool_input

FinalOutputs ==
    { StrOut(<<"a">>), ListOut(<<TextFrag(<<>>), StrFrag(<<" ">>)>>) }

(***************************************************************************)
(* Response normaliser (src/main.py:221-245).                              *)
(***************************************************************************)
\* one pass of the loop over a list output: what the fragment adds
FragmentText(item) ==
    CASE item.kind = "dict" ->
            IF "text" \in DOMAIN item.map THEN item.map.text.text
            ELSE IF "content" \in DOMAIN item.map THEN PyStr(item.map.content)
            ELSE <<>>
      [] item.kind = "str" -> item.text
      [] OTHER -> PyStr(item)

RECURSIVE ConcatFragments(_)
ConcatFragments(items) ==
    IF items = <<>> THEN <<>>
    ELSE FragmentText(Head(items)) \o ConcatFragments(Tail(items))

\* response_text before the fallback test
ExtractText(output) ==
    CASE output.kind = "list" -> ConcatFragments(output.items)
      [] output.kind = "str" -> output.text
      [] OTHER -> PyStr(output)

\* mutant: the test without strip()
IsEmptyOnly(t) == t = <<>>

\* `not response_text or response_text.strip() == ""`
IsBlank(t) == t = <<>> \/ Strip(t) = <<>>

NormalizeOutput(output) ==
    LET response_text == ExtractText(output)
    IN  IF IsBlank(response_text) THEN FallbackText ELSE response_text

LlmFailures == { <<"Error code: 429 - rate_limit_error">> }

(***************************************************************************)
(* Trace of one exchange (src/main.py:247-260).                            *)
(***************************************************************************)
\* str() of a tool input or a tool result, kept as the value it prints
StrOf(x) == [str_of |-> x]

\* the characters of str(x) for a tool result x: the text of a dict spells out
\* the reason it holds; the rest of it counts as one token
ReprText(x) ==
    IF "reason" \in DOMAIN x
    THEN <<"{'status': .., 'reason': '">> \o x.reason \o <<"'}">>
    ELSE <<x>>

AgentSteps(intermediate_steps) ==
    [i \in 1..Len(intermediate_steps) |->
        [tool |-> intermediate_steps[i].action.tool,
         input |-> StrOf(intermediate_steps[i].action.tool_input),
         output |-> StrOf(intermediate_steps[i].observation)]]

RECURSIVE ToolsUsedFrom(_, _)
ToolsUsedFrom(intermediate_steps, tools_used) ==
    IF intermediate_steps = <<>> THEN tools_used
    ELSE LET name == Head(intermediate_steps).action.tool
         IN  ToolsUsedFrom(Tail(intermediate_steps),
                           IF \E i \in 1..Len(tools_used) : tools_used[i] = name
                           THEN tools_used
                           ELSE Append(tools_used, name))

\* mutant: the name of every step is appended, without the test of line 259
ToolsUsedOfEveryStep(intermediate_steps) ==
    [i \in 1..Len(intermediate_steps) |-> intermediate_steps[i].action.tool]

ToolsUsed(intermediate_steps) == ToolsUsedFrom(intermediate_steps, <<>>)

(***************************************************************************)
(* State.                                                                  *)
(*   sessions     the dict `sessions`: session id -> memory object         *)
(*   heap         the messages held by each memory object                  *)
(*   pc, sid      position and session id of each chat request             *)
(*   memory, iterations, todo, steps, output, result                       *)
(*                locals of the chat handler and of executor.invoke        *)
(*   running      the chat request the event loop is executing             *)
(*   checked      clear_session threads between line 276 and line 277      *)
(*   stale, log   history variables: whether the session of a running      *)
(*                exchange was cleared under it, and the turns each        *)
(*                session is expected to remember                          *)
(***************************************************************************)
VARIABLES sessions, heap, pc, sid, memory, iterations, todo, steps, output,
          result, running, checked, stale, log

vars == <<sessions, heap, pc, sid, memory, iterations, todo, steps, output,
          result, running, checked, stale, log>>

NoMemory == 0
NoOutput == [kind |-> "none"]
NoResult == [status |-> 0]

\* the text of request r's message
MessageOf(r) == <<"message", ToString(r)>>

\* the messages memory.save_context appends; ex and of are history fields: the
\* exchange that produced the turn and the session id of its request
HumanMessage(r, s) ==
    [role |-> "user", content |-> StrOut(MessageOf(r)), ex |-> r, of |-> s]
AIMessage(r, s, out) ==
    [role |-> "assistant", content |-> out, ex |-> r, of |-> s]

Init ==
    /\ sessions = <<>>
    /\ heap = [o \in Chats |-> <<>>]
    /\ pc = [r \in Chats |-> "idle"]
    /\ sid = [r \in Chats |-> "s1"]
    /\ memory = [r \in Chats |-> NoMemory]
    /\ iterations = [r \in Chats |-> 0]
    /\ todo = [r \in Chats |-> <<>>]
    /\ steps = [r \in Chats |-> <<>>]
    /\ output = [r \in Chats |-> NoOutput]
    /\ result = [r \in Chats |-> NoResult]
    /\ running = NoChat
    /\ checked = [s \in SessionIds |-> 0]
    /\ stale = [r \in Chats |-> FALSE]
    /\ log = [s \in SessionIds |-> <<>>]

locals == <<memory, iterations, todo, steps, output, result>>
clears == <<checked>>

(***************************************************************************)
(* POST /chat                                                              *)
(***************************************************************************)
\* a client sends request r for session s; it waits for the event loop
Arrive(r, s) ==
    /\ pc[r] = "idle"
    /\ \A q \in Chats : q < r => pc[q] # "idle"
    /\ pc' = [pc EXCEPT ![r] = "pending"]
    /\ sid' = [sid EXCEPT ![r] = s]
    /\ UNCHANGED <<sessions, heap, locals, running, clears, stale, log>>

\* mutant: every request gets a thread of its own
LoopAlwaysFree == TRUE

\* the event loop runs one coroutine at a time, and chat never awaits
LoopFree == running = NoChat

CanBegin(r) == pc[r] = "pending" /\ LoopFree

\* mutant: a new memory for every request
GetOrCreateAlwaysNew(store, s, fresh) ==
    [k \in DOMAIN store \cup {s} |-> IF k = s THEN fresh ELSE store[k]]

\* lines 199-203: create the memory of a new session
GetOrCreate(store, s, fresh) ==
    IF s \in DOMAIN store THEN store ELSE store @@ (s :> fresh)

Begin(r) ==
    /\ CanBegin(r)
    /\ running' = r
    /\ sessions' = GetOrCreate(sessions, sid[r], r)
    /\ pc' = [pc EXCEPT ![r] = "fetch"]
    /\ UNCHANGED <<heap, sid, locals, clears, stale, log>>

\* the exchange ends with an exception: lines 268-272
Raise(r, text) ==
    /\ pc' = [pc EXCEPT ![r] = "failed"]
    /\ result' = [result EXCEPT ![r] = [status |-> 500, detail |-> text]]

\* mutant: one memory shared by every session
MemoryOfAny(store, s) == store[CHOOSE k \in DOMAIN store : TRUE]

\* sessions[request.session_id]
MemoryOf(store, s) == store[s]

\* mutant: the user turn is stored when the exchange starts
LoadMemoryAddsInput(h, r, s) == Append(h, HumanMessage(r, s))

\* executor.invoke first reads the history of the memory; reading leaves it as it is
LoadMemory(h, r, s) == h

\* line 205, then the executor is built (lines 208-216) and invoked (line 219)
Fetch(r) ==
    /\ pc[r] = "fetch"
    /\ IF sid[r] \in DOMAIN sessions
       THEN /\ memory' = [memory EXCEPT ![r] = MemoryOf(sessions, sid[r])]
            /\ heap' = [heap EXCEPT ![MemoryOf(sessions, sid[r])] =
                                        LoadMemory(@, r, sid[r])]
            /\ pc' = [pc EXCEPT ![r] = "thinking"]
            /\ UNCHANGED result
       ELSE /\ Raise(r, <<"'", sid[r], "'">>)
            /\ UNCHANGED <<memory, heap>>
    /\ UNCHANGED <<sessions, sid, iterations, todo, steps, output,
                   running, clears, stale, log>>

\* what the reasoning service is given in one step: the prompt of lines 146-160
\* with chat_history read from the memory object and the scratchpad of this exchange
Context(r) ==
    [chat_history |-> heap[memory[r]],
     input |-> MessageOf(r),
     agent_scratchpad |-> steps[r]]

\* memory.save_context of executor.invoke adds the input, then the raw output,
\* one message after the other
SaveHuman(h, r, s) == Append(h, HumanMessage(r, s))

\* mutant: the tool results are saved as turns too
SaveAIWithToolTurns(h, r, s, out) ==
    h \o [i \in 1..Len(steps[r]) |->
             [role |-> "tool", content |-> steps[r][i], ex |-> r, of |-> s]]
      \o <<AIMessage(r, s, out)>>

SaveAI(h, r, s, out) == Append(h, AIMessage(r, s, out))

SaveContext(h, r, s, out) == SaveAI(SaveHuman(h, r, s), r, s, out)

\* lines 221-266: the response built from the result of executor.invoke
ChatResponse(out, intermediate_steps) ==
    [status |-> 200,
     response |-> NormalizeOutput(out),
     agent_steps |-> AgentSteps(intermediate_steps),
     tools_used |-> ToolsUsed(intermediate_steps)]

\* mutant: the bound test is off by one
ShouldContinueOneMore(n) == n <= MaxIterations

\* the loop of AgentExecutor goes on while iterations < max_iterations
ShouldContinue(n) == n < MaxIterations

\* the loop has ended with raw output `out`: save_context starts
Finish(r, out) ==
    /\ heap' = [heap EXCEPT ![memory[r]] = SaveHuman(@, r, sid[r])]
    /\ output' = [output EXCEPT ![r] = out]
    /\ pc' = [pc EXCEPT ![r] = "saving"]
    /\ UNCHANGED <<sessions, sid, memory, iterations, todo, steps, result,
                   running, clears, stale, log>>

CanSave(r) == pc[r] = "saving"

\* save_context ends and executor.invoke returns: DONE with a final answer of
\* the reasoning service, ABORTED at the iteration bound
Save(r) ==
    /\ CanSave(r)
    /\ heap' = [heap EXCEPT ![memory[r]] = SaveAI(@, r, sid[r], output[r])]
    /\ pc' = [pc EXCEPT ![r] =
                 IF ShouldContinue(iterations[r]) THEN "done" ELSE "aborted"]
    /\ log' = IF stale[r] THEN log
              ELSE [log EXCEPT ![sid[r]] =
                       SaveContext(@, r, sid[r], output[r])]
    /\ UNCHANGED <<sessions, sid, memory, iterations, todo, steps, output,
                   result, running, clears, stale>>

\* `response_text += item["text"]` raises TypeError when the value is no str
NormalizeRaises(out) ==
    /\ out.kind = "list"
    /\ \E i \in 1..Len(out.items) :
          /\ out.items[i].kind = "dict"
          /\ "text" \in DOMAIN out.items[i].map
          /\ out.items[i].map.text.kind # "str"

\* lines 221-266 on the result of executor.invoke
Respond(r) ==
    /\ pc[r] \in {"done", "aborted"}
    /\ result[r] = NoResult
    /\ IF NormalizeRaises(output[r])
       THEN Raise(r, <<"can only concatenate str">>)
       ELSE /\ result' = [result EXCEPT ![r] = ChatResponse(output[r], steps[r])]
            /\ UNCHANGED pc
    /\ UNCHANGED <<sessions, heap, sid, memory, iterations, todo, steps, output,
                   running, clears, stale, log>>

\* one call of the reasoning service
CanThink(r) == pc[r] = "thinking" /\ ShouldContinue(iterations[r])

Think(r) ==
    /\ CanThink(r)
    /\ \/ \E d \in Decisions :
            /\ todo' = [todo EXCEPT ![r] = d]
            /\ pc' = [pc EXCEPT ![r] = "acting"]
            /\ UNCHANGED <<sessions, heap, sid, memory, iterations, steps,
                           output, result, running, clears, stale, log>>
       \/ \E out \in FinalOutputs : Finish(r, out)
       \/ \E e \in LlmFailures :
            /\ Raise(r, e)
            /\ UNCHANGED <<sessions, heap, sid, memory, iterations, todo, steps,
                           output, running, clears, stale, log>>

\* the iteration bound is used up: the loop stops with its fixed output
CanStop(r) == pc[r] = "thinking" /\ ~ShouldContinue(iterations[r])

\* mutant: the bound is reported as an exception
StopRaises(r) ==
    /\ CanStop(r)
    /\ Raise(r, <<"Agent stopped due to iteration limit or time limit.">>)
    /\ UNCHANGED <<sessions, heap, sid, memory, iterations, todo, steps, output,
                   running, clears, stale, log>>

Stop(r) ==
    /\ CanStop(r)
    /\ Finish(r, StoppedOutput)

\* the next requested tool call runs; after the last one of the step the
\* iteration is counted and the loop goes back to the reasoning service
CanAct(r) == pc[r] = "acting" /\ todo[r] # <<>>

\* mutant: the loop goes back to the reasoning service after one tool call
StepDoneAfterOneCall(calls) == TRUE

\* every tool call the step requested has been run
StepDone(calls) == calls = <<>>

Act(r) ==
    /\ CanAct(r)
    /\ LET call == Head(todo[r])
       IN  IF ToolRaises(call)
           THEN /\ Raise(r, <<"validation error for ", call.tool>>)
                /\ UNCHANGED <<todo, steps, iterations>>
           ELSE \E days_ago \in DaysAgo, eta \in EtaDays :
                   /\ steps' = [steps EXCEPT ![r] =
                          Append(@, [action |-> call,
                                     observation |-> RunTool(call, days_ago, eta)])]
                   /\ todo' = [todo EXCEPT ![r] = Tail(@)]
                   /\ IF StepDone(Tail(todo[r]))
                      THEN /\ iterations' = [iterations EXCEPT ![r] = @ + 1]
                           /\ pc' = [pc EXCEPT ![r] = "thinking"]
                      ELSE UNCHANGED <<iterations, pc>>
                   /\ UNCHANGED result
    /\ UNCHANGED <<sessions, heap, sid, memory, output, running, clears, stale, log>>

\* a memory object that neither the dict nor a running handler refers to is
\* freed: its messages are gone
Referenced(store, mem, o) ==
    \/ \E s \in DOMAIN store : store[s] = o
    \/ \E r \in Chats : mem[r] = o

Collect(h, store, mem) ==
    [o \in DOMAIN h |-> IF Referenced(store, mem, o) THEN h[o] ELSE <<>>]

\* the handler returns (the response, or HTTP 500): its locals are gone and
\* the event loop takes the next request
Return(r) ==
    /\ pc[r] \in {"done", "aborted", "failed"}
    /\ result[r] # NoResult
    /\ pc' = [pc EXCEPT ![r] = "closed"]
    /\ running' = NoChat
    /\ memory' = [memory EXCEPT ![r] = NoMemory]
    /\ iterations' = [iterations EXCEPT ![r] = 0]
    /\ todo' = [todo EXCEPT ![r] = <<>>]
    /\ steps' = [steps EXCEPT ![r] = <<>>]
    /\ output' = [output EXCEPT ![r] = NoOutput]
    /\ result' = [result EXCEPT ![r] = NoResult]
    /\ stale' = [stale EXCEPT ![r] = FALSE]
    /\ sid' = [sid EXCEPT ![r] = "s1"]
    /\ heap' = Collect(heap, sessions, memory')
    /\ UNCHANGED <<sessions, clears, log>>

(***************************************************************************)
(* DELETE /session/{session_id}, on a worker thread                        *)
(***************************************************************************)
ClearThreads == checked["s1"] + checked["s2"]

\* the test of line 276 decides what the call returns: line 278 or line 279
ClearStatus(store, s) == IF s \in DOMAIN store THEN "cleared" ELSE "not_found"

\* line 276; when the id is absent the call returns at line 279
ClearCheck(s) ==
    /\ ClearThreads < MaxClearThreads
    /\ checked' = IF ClearStatus(sessions, s) = "cleared"
                  THEN [checked EXCEPT ![s] = @ + 1]
                  ELSE checked
    /\ UNCHANGED <<sessions, heap, pc, sid, locals, running, stale, log>>

\* del sessions[session_id] raises KeyError when the key is not in the dict
DelRaises(store, s) == s \notin DOMAIN store

\* mutant: the whole dict is emptied
RemoveEverySession(store, s) == <<>>

\* del sessions[session_id]
Remove(store, s) == [k \in DOMAIN store \ {s} |-> store[k]]

\* lines 277-278 of a call that found the id at line 276
ClearDel(s) ==
    /\ checked[s] > 0
    /\ checked' = [checked EXCEPT ![s] = @ - 1]
    /\ IF DelRaises(sessions, s)
       THEN UNCHANGED <<sessions, stale, log>>
       ELSE /\ sessions' = Remove(sessions, s)
            /\ stale' = [r \in Chats |->
                            stale[r] \/ (sid[r] = s /\ memory[r] # NoMemory)]
            /\ log' = [log EXCEPT ![s] = <<>>]
    /\ heap' = Collect(heap, sessions', memory)
    /\ UNCHANGED <<pc, sid, locals, running>>

(***************************************************************************)
(* GET /health and GET /status: they read, and write nothing               *)
(***************************************************************************)
health_check == [status |-> "healthy", agent |-> "ready"]

status(store) ==
    [tools_available |-> <<"lookup_order", "process_refund", "search_knowledge_base">>,
     active_sessions |-> Cardinality(DOMAIN store),
     llm |-> "claude-sonnet-4-5-20250929"]

Next ==
    \/ \E r \in Chats, s \in SessionIds : Arrive(r, s)
    \/ \E r \in Chats : Begin(r)
    \/ \E r \in Chats : Fetch(r)
    \/ \E r \in Chats : Think(r)
    \/ \E r \in Chats : Stop(r)
    \/ \E r \in Chats : Act(r)
    \/ \E r \in Chats : Save(r)
    \/ \E r \in Chats : Respond(r)
    \/ \E r \in Chats : Return(r)
    \/ \E s \in SessionIds : ClearCheck(s)
    \/ \E s \in SessionIds : ClearDel(s)

Spec == Init /\ [][Next]_vars

(***************************************************************************)
(* The normaliser on its own: executor.invoke of request 1 on session s1   *)
(* has just returned some raw output, and lines 221-266 run on it.         *)
(***************************************************************************)
Texts == { <<>>, <<" ">>, <<"a">>, <<" ", "a">>, <<"a", " ">>, <<" ", " ">> }

FragTexts == { <<>>, <<" ">>, <<"a">> }

Fragments ==
    { TextFrag(t) : t \in FragTexts }
        \cup { ContentFrag(StrOut(t)) : t \in FragTexts }
        \cup { StrFrag(t) : t \in FragTexts }
        \cup { ContentFrag(OtherOut(<<"7">>)),
               DictOut([text |-> OtherOut(<<"None">>)]),
               DictOut([type |-> StrOut(<<"tool_use">>)]),
               OtherOut(<<"None">>) }

RawOutputs ==
    { StrOut(t) : t \in Texts }
        \cup { OtherOut(<<"None">>) }
        \cup { ListOut(<<>>) }
        \cup { ListOut(<<f>>) : f \in Fragments }
        \cup { ListOut(<<f, g>>) : f \in Fragments, g \in Fragments }

NormInit ==
    \E out \in RawOutputs :
        /\ sessions = ("s1" :> 1)
        /\ heap = [o \in Chats |->
                      IF o = 1 THEN SaveContext(<<>>, 1, "s1", out) ELSE <<>>]
        /\ pc = [r \in Chats |-> IF r = 1 THEN "done" ELSE "idle"]
        /\ sid = [r \in Chats |-> "s1"]
        /\ memory = [r \in Chats |-> IF r = 1 THEN 1 ELSE NoMemory]
        /\ iterations = [r \in Chats |-> 0]
        /\ todo = [r \in Chats |-> <<>>]
        /\ steps = [r \in Chats |-> <<>>]
        /\ output = [r \in Chats |-> IF r = 1 THEN out ELSE NoOutput]
        /\ result = [r \in Chats |-> NoResult]
        /\ running = 1
        /\ checked = [s \in SessionIds |-> 0]
        /\ stale = [r \in Chats |-> FALSE]
        /\ log = [s \in SessionIds |->
                     IF s = "s1" THEN SaveContext(<<>>, 1, "s1", out) ELSE <<>>]

NormNext ==
    \/ \E r \in Chats : Respond(r)
    \/ \E r \in Chats : Return(r)

NormSpec == NormInit /\ [][NormNext]_vars

(***************************************************************************)
(* The tools on their own: request 1 on session s1 is in the last          *)
(* iteration of its loop and the reasoning service has requested a list of *)
(* one or two tool calls, with any order id and reason.                    *)
(***************************************************************************)
OrderIds == {"12345", "67890", "99999"}

Reasons == { <<"damaged">>, [i \in 1..MaxReasonLen |-> "x"] }

ToolCalls ==
    { LookupCall(o) : o \in OrderIds }
        \cup { RefundCall(o, why) : o \in OrderIds, why \in Reasons }

ToolPlans ==
    { <<c>> : c \in ToolCalls } \cup { <<c, d>> : c \in ToolCalls, d \in ToolCalls }

ToolInit ==
    \E plan \in ToolPlans :
        /\ sessions = ("s1" :> 1)
        /\ heap = [o \in Chats |-> <<>>]
        /\ pc = [r \in Chats |-> IF r = 1 THEN "acting" ELSE "idle"]
        /\ sid = [r \in Chats |-> "s1"]
        /\ memory = [r \in Chats |-> IF r = 1 THEN 1 ELSE NoMemory]
        /\ iterations = [r \in Chats |-> IF r = 1 THEN MaxIterations - 1 ELSE 0]
        /\ todo = [r \in Chats |-> IF r = 1 THEN plan ELSE <<>>]
        /\ steps = [r \in Chats |-> <<>>]
        /\ output = [r \in Chats |-> NoOutput]
        /\ result = [r \in Chats |-> NoResult]
        /\ running = 1
        /\ checked = [s \in SessionIds |-> 0]
        /\ stale = [r \in Chats |-> FALSE]
        /\ log = [s \in SessionIds |-> <<>>]

ToolNext ==
    \/ \E r \in Chats : Act(r)
    \/ \E r \in Chats : Stop(r)
    \/ \E r \in Chats : Save(r)
    \/ \E r \in Chats : Respond(r)
    \/ \E r \in Chats : Return(r)

ToolSpec == ToolInit /\ [][ToolNext]_vars

\* the turns the reasoning service is given before the scratchpad: the history,
\* then the new user message
ContextTurns(r) == Context(r).chat_history \o <<HumanMessage(r, sid[r])>>

\* the history stored for session s (none when s is not in the store)
History(s) == IF s \in DOMAIN sessions THEN heap[sessions[s]] ELSE <<>>

\* seq occurs in whole as a block of consecutive elements of within
OccursIn(seq, within) ==
    \E k \in 0..(Len(within) - Len(seq)) :
        SubSeq(within, k + 1, k + Len(seq)) = seq

TypeOK ==
    /\ DOMAIN sessions \subseteq SessionIds
    /\ running \in Chats \cup {NoChat}
    /\ \A r \in Chats : iterations[r] \in 0..MaxIterations

C2_SessionIsolation ==
    \A s \in DOMAIN sessions :
        \A i \in 1..Len(History(s)) : History(s)[i].of = s

C2_Witness ==
    /\ DOMAIN sessions = SessionIds
    /\ \A s \in SessionIds : Len(History(s)) = 2

(***************************************************************************)
(* C3.  clear-session(s) returns "cleared" and removes s when s exists,    *)
(* and the next chat on s then starts with an empty history; when s does   *)
(* not exist it returns "not_found", changes nothing in the store, and it  *)
(* never raises.  Stated of every step of clear_session and of the step    *)
(* of chat that creates a session.                                         *)
(***************************************************************************)
C3_ClearSessionContract ==
    [][ /\ \A s \in SessionIds :
             /\ (ClearCheck(s) /\ ClearStatus(sessions, s) = "not_found")
                    => UNCHANGED <<sessions, heap>>
             /\ ClearDel(s)
                    => (~DelRaises(sessions, s) /\ s \notin DOMAIN sessions')
        /\ \A r \in Chats :
             (Begin(r) /\ sid[r] \notin DOMAIN sessions)
                    => heap[sessions'[sid[r]]] = <<>>
      ]_vars

(***************************************************************************)
(* C4.  The agent loop of one exchange terminates: whatever the reasoning  *)
(* service decides at each step, the exchange makes at most MaxIterations  *)
(* THINKING->ACTING cycles; while it is in the loop its next step (a call  *)
(* of the reasoning service, a tool call, the stop at the bound, or the    *)
(* save of the memory) is enabled, and every such step lowers StepsLeft, so *)
(* after at most StepsLeft steps the exchange has left the loop: done,     *)
(* aborted at the bound, or failed because a call raised.                  *)
(***************************************************************************)
Cycles(r) == iterations[r] + (IF pc[r] = "acting" THEN 1 ELSE 0)

InLoop(r) == pc[r] \in {"thinking", "acting", "saving"}

LoopStep(r) == Think(r) \/ Stop(r) \/ Act(r) \/ Save(r)

\* the longest list of tool calls one step may request
LongestDecision == CHOOSE n \in 0..10 : \A d \in Decisions : Len(d) <= n

\* an upper bound of the loop steps the exchange has left
StepsLeft(r) ==
    CASE pc[r] = "thinking" ->
            (MaxIterations - iterations[r]) * (LongestDecision + 1) + 2
      [] pc[r] = "acting" ->
            (MaxIterations - Cycles(r)) * (LongestDecision + 1) + 2 + Len(todo[r])
      [] OTHER -> 1

AllSpaces(t) == \A i \in 1..Len(t) : t[i] = " "

C5_ResponseNeverBlank ==
    \A r \in Chats :
        result[r].status = 200 =>
            /\ ~AllSpaces(result[r].response)
            /\ AllSpaces(ExtractText(output[r])) => result[r].response = FallbackText

C5_Witness ==
    \E r \in Chats :
        /\ result[r].status = 200
        /\ output[r].kind = "list"
        /\ ExtractText(output[r]) = <<" ", " ">>
        /\ result[r].response = FallbackText

(***************************************************************************)
(* C6.  Tool failure is a value: a call of lookup_order or process_refund  *)
(* with an order id that is not in the order database adds a step whose    *)
(* observation carries an "error" key, the exchange stays in its loop (it  *)
(* does not fail), and the response of the exchange records that payload   *)
(* as the output of the call.                                              *)
(***************************************************************************)
KnownOrderIds == {"12345", "67890"}

UnknownOrder(call) ==
    /\ call.tool \in {"lookup_order", "process_refund"}
    /\ call.tool_input.order_id \notin KnownOrderIds

C6_ToolFailureIsAValue ==
    /\ [](\A r \in Chats : \A i \in 1..Len(steps[r]) :
            UnknownOrder(steps[r][i].action) =>
                /\ "error" \in DOMAIN steps[r][i].observation
                /\ result[r].status = 200 =>
                      /\ result[r].agent_steps[i].tool = steps[r][i].action.tool
                      /\ result[r].agent_steps[i].output
                             = StrOf(steps[r][i].observation))
    /\ [][\A r \in Chats :
            (Act(r) /\ UnknownOrder(Head(todo[r]))) =>
                /\ pc'[r] \in {"acting", "thinking"}
                /\ Len(steps'[r]) = Len(steps[r]) + 1
                /\ steps'[r][Len(steps'[r])].action = Head(todo[r])]_vars

C6_Witness ==
    \E r \in Chats :
        /\ pc[r] \in {"done", "aborted"}
        /\ result[r].status = 200
        /\ \E i, j \in 1..Len(steps[r]) :
              /\ steps[r][i].action = LookupCall("99999")
              /\ steps[r][j].action = RefundCall("99999", <<"damaged">>)
              /\ "error" \in DOMAIN steps[r][i].observation
              /\ "error" \in DOMAIN steps[r][j].observation

(***************************************************************************)
(* C7.  Two requests for different session identifiers never block each    *)
(* other: while an exchange for one session is awaiting the reasoning      *)
(* service or a tool, a waiting request for another session can start.     *)
(***************************************************************************)
C7_DifferentSessionsNeverBlock ==
    \A r1, r2 \in Chats :
        (pc[r1] \in {"thinking", "acting"} /\ pc[r2] = "pending" /\ sid[r2] # sid[r1])
            => CanBegin(r2)

(***************************************************************************)
(* C8.  Exchanges on one session do not interleave their history appends:  *)
(* whenever no exchange is in the middle of saving to the history of s,    *)
(* that history is made of the user turn and then the assistant turn of    *)
(* one exchange after the other, each exchange at most once, and it holds  *)
(* exactly the exchanges completed on s since s was last cleared.          *)
(***************************************************************************)
Paired(h) ==
    /\ Len(h) % 2 = 0
    /\ \A i \in 1..Len(h) :
          /\ h[i].role = IF i % 2 = 1 THEN "user" ELSE "assistant"
          /\ i % 2 = 1 => h[i + 1].ex = h[i].ex
          /\ \A j \in 1..Len(h) : (j # i /\ h[j].role = h[i].role) => h[j].ex # h[i].ex

C8_AppendsDoNotInterleave ==
    \A s \in DOMAIN sessions :
        (\A r \in Chats : ~(pc[r] = "saving" /\ memory[r] = sessions[s])) =>
            /\ Paired(History(s))
            /\ History(s) = log[s]

C8_Witness ==
    \E r1, r2 \in Chats :
        /\ r1 # r2
        /\ sid[r1] = sid[r2]
        /\ pc[r1] = "done"
        /\ pc[r2] = "pending"
        /\ ~stale[r1]
        /\ Len(History(sid[r1])) = 2

(***************************************************************************)
(* C9.  History appends of one exchange are all-or-nothing: when an        *)
(* exchange has failed because the reasoning service or a tool raised (or  *)
(* the lookup of line 205 did), no memory holds a turn of that exchange,   *)
(* and the history of its session is the one of the exchanges completed    *)
(* before it.                                                              *)
(***************************************************************************)
C9_FailureLeavesHistory ==
    \A r \in Chats :
        pc[r] = "failed" =>
            /\ \A o \in Chats : \A i \in 1..Len(heap[o]) : heap[o][i].ex # r
            /\ History(sid[r]) = log[sid[r]]

C9_Witness ==
    \E r \in Chats :
        /\ pc[r] = "failed"
        /\ result[r].detail \in LlmFailures
        /\ steps[r] # <<>>
        /\ ~stale[r]
        /\ Len(History(sid[r])) = 2

(***************************************************************************)
(* C10 as claimed.  A successful exchange that executed k tool calls       *)
(* extends the history by one user turn, k tool-result turns and one       *)
(* assistant turn: k + 2 turns of its own.                                 *)
(***************************************************************************)
OwnTurns(r) == SelectSeq(heap[memory[r]], LAMBDA t : t.ex = r)

C10_HistoryHoldsToolResults ==
    \A r \in Chats :
        pc[r] \in {"done", "aborted"} => Len(OwnTurns(r)) = Len(steps[r]) + 2

(***************************************************************************)
(* C10 as amended.  A successful exchange extends the history of the       *)
(* memory it fetched by exactly two turns, whatever the number of tool     *)
(* calls: the user turn holding the message, then the assistant turn       *)
(* holding the raw final output of the loop; no tool result becomes a      *)
(* turn.  A step changes a history only by appending one turn to it, until *)
(* the memory is dropped (cleared and no longer used by a handler).        *)
(***************************************************************************)
IsPrefix(a, b) == Len(a) <= Len(b) /\ SubSeq(b, 1, Len(a)) = a

C10_HistoryGrowsByTwoTurns ==
    /\ [](\A r \in Chats :
            pc[r] \in {"done", "aborted"} =>
                LET h == heap[memory[r]]
                IN  /\ Len(h) >= 2
                    /\ h[Len(h) - 1] = HumanMessage(r, sid[r])
                    /\ h[Len(h)] = AIMessage(r, sid[r], output[r])
                    /\ OwnTurns(r) = <<h[Len(h) - 1], h[Len(h)]>>
                    /\ \A i \in 1..Len(h) : h[i].role \in {"user", "assistant"})
    /\ [][\A o \in Chats :
            \/ heap'[o] = heap[o]
            \/ /\ IsPrefix(heap[o], heap'[o])
               /\ Len(heap'[o]) = Len(heap[o]) + 1
            \/ /\ heap'[o] = <<>>
               /\ ~Referenced(sessions', memory', o)]_vars

C10_Witness ==
    \E r \in Chats :
        /\ pc[r] = "done"
        /\ Len(steps[r]) = 3
        /\ Len(heap[memory[r]]) = 4

(***************************************************************************)
(* C11.  The trace returned by an exchange has one record {tool, input,    *)
(* output} per tool call the exchange executed, in execution order, and    *)
(* tools_used holds exactly the tool names of the trace, each once; with   *)
(* no tool call both lists are empty.                                      *)
(***************************************************************************)
C11_TraceMatchesToolCalls ==
    \A r \in Chats :
        result[r].status = 200 =>
            LET trace == result[r].agent_steps
                used == result[r].tools_used
            IN  /\ Len(trace) = Len(steps[r])
                /\ \A i \in 1..Len(trace) :
                      trace[i] = [tool |-> steps[r][i].action.tool,
                                  input |-> StrOf(steps[r][i].action.tool_input),
                                  output |-> StrOf(steps[r][i].observation)]
                /\ {used[i] : i \in 1..Len(used)} = {trace[i].tool : i \in 1..Len(trace)}
                /\ \A i, j \in 1..Len(used) : i # j => used[i] # used[j]
                /\ steps[r] = <<>> => (trace = <<>> /\ used = <<>>)

C11_Witness ==
    \E r \in Chats :
        /\ result[r].status = 200
        /\ Len(result[r].agent_steps) = 6
        /\ Len(result[r].tools_used) = 2

(***************************************************************************)
(* C12.  When the call of the reasoning service fails, the text the caller *)
(* receives is a generic message, never the string of the exception.       *)
(***************************************************************************)
C12_FailureMessageIsGeneric ==
    \A r \in Chats :
        pc[r] = "failed" => result[r].detail \notin LlmFailures

(***************************************************************************)
(* C13.  When the iteration bound is used up the exchange raises nothing:  *)
(* the stop at the bound, the save and the building of the response never  *)
(* end in a failure, and chat returns a normal response whose text is the  *)
(* fixed stop message of the loop, with the trace of the tool calls        *)
(* executed before the stop.                                               *)
(***************************************************************************)
AtBound(r) == ~ShouldContinue(iterations[r])

C13_AbortReturnsBestEffort ==
    /\ [](\A r \in Chats :
            (pc[r] = "aborted" /\ result[r] # NoResult) =>
                /\ result[r].status = 200
                /\ result[r].response = PyStr(StoppedOutput)
                /\ result[r].agent_steps = AgentSteps(steps[r])
                /\ Len(result[r].agent_steps) >= MaxIterations)
    /\ [][\A r \in Chats :
            (AtBound(r) /\ pc[r] \in {"thinking", "saving", "aborted"})
                => pc'[r] # "failed"]_vars

C13_Witness ==
    \E r \in Chats :
        /\ pc[r] = "aborted"
        /\ result[r].status = 200
        /\ result[r].response = <<"Agent stopped due to iteration limit or time limit.">>
        /\ Len(result[r].agent_steps) >= MaxIterations

(***************************************************************************)
(* C14.  Normalising a raw output that is a plain string, neither empty    *)
(* nor whitespace-only, returns that string character for character; and   *)
(* normalising a fragment list returns a response made of the fragments in *)
(* list order: the "text" value of a mapping (else the string form of its  *)
(* "content" value), a plain string as it is, the string form of anything  *)
(* else (with the fallback message when that concatenation is blank).      *)
(***************************************************************************)
C14_NormalizeConcatenates ==
    \A r \in Chats :
        (pc[r] \in {"done", "aborted", "failed"} /\ result[r] # NoResult) =>
            /\ (output[r].kind = "str" /\ ~AllSpaces(output[r].text)) =>
                  /\ result[r].status = 200
                  /\ result[r].response = output[r].text
            /\ output[r].kind = "list" =>
                  /\ result[r].status = 200
                  /\ ~AllSpaces(ConcatFragments(output[r].items)) =>
                        result[r].response = ConcatFragments(output[r].items)

(***************************************************************************)
(* C15.  The output of every trace record is capped in length: whatever    *)
(* the tool result, the recorded string is no longer than a fixed cap.     *)
(* The cap is put at the longest reason the reasoning service can write;   *)
(* a longer cap is met by a longer reason in the same way.                 *)
(***************************************************************************)
OutputCap == MaxReasonLen

C15_TraceOutputCapped ==
    \A r \in Chats :
        result[r].status = 200 =>
            \A i \in 1..Len(result[r].agent_steps) :
                Len(ReprText(result[r].agent_steps[i].output.str_of)) <= OutputCap

(***************************************************************************)
(* C16.  Within one exchange reasoning and tool execution alternate: a     *)
(* tool call runs only while the exchange is acting, the calls requested   *)
(* by one reasoning step run one per step in the order requested, and the  *)
(* reasoning service is called again only when none of them is left, with  *)
(* a scratchpad that holds the result of every one of them.                *)
(***************************************************************************)
ActionsOf(seq) == [i \in 1..Len(seq) |-> seq[i].action]

\* the last n steps of the exchange
LastSteps(r, n) == SubSeq(steps[r], Len(steps[r]) - n + 1, Len(steps[r]))

\* the exchange has run the first k calls of decision d, the others are to do
Progress(r, d, k) ==
    /\ todo[r] = SubSeq(d, k + 1, Len(d))
    /\ Len(steps[r]) >= k
    /\ ActionsOf(LastSteps(r, k)) = SubSeq(d, 1, k)

C16_ReasoningAndToolsAlternate ==
    /\ [](\A r \in Chats :
            /\ pc[r] = "acting" =>
                  \E d \in Decisions : \E k \in 0..(Len(d) - 1) : Progress(r, d, k)
            /\ pc[r] = "thinking" =>
                  /\ todo[r] = <<>>
                  /\ Context(r).agent_scratchpad = steps[r]
                  /\ iterations[r] > 0 =>
                        \E d \in Decisions :
                            /\ Len(steps[r]) >= Len(d)
                            /\ ActionsOf(LastSteps(r, Len(d))) = d)
    /\ [][\A r \in Chats :
            /\ Act(r) =>
                  /\ pc[r] = "acting"
                  /\ pc'[r] # "failed" =>
                        /\ Len(steps'[r]) = Len(steps[r]) + 1
                        /\ SubSeq(steps'[r], 1, Len(steps[r])) = steps[r]
                        /\ steps'[r][Len(steps'[r])].action = Head(todo[r])
                        /\ todo'[r] = Tail(todo[r])
            /\ Think(r) => (pc[r] = "thinking" /\ steps'[r] = steps[r])]_vars

C16_Witness ==
    \E r \in Chats :
        /\ pc[r] = "thinking"
        /\ iterations[r] = 2
        /\ Len(steps[r]) = 6

(***************************************************************************)
(* C17.  process_refund is safe to retry: called again with the same order *)
(* id and reason, at any position of an exchange, it returns the same      *)
(* payload, and running it changes nothing but the scratchpad of the       *)
(* exchange that runs it: no session, no history, no other request.        *)
(***************************************************************************)
C17_RefundIsIdempotent ==
    /\ [](\A r \in Chats : \A i, j \in 1..Len(steps[r]) :
            (steps[r][i].action.tool = "process_refund"
                /\ steps[r][j].action = steps[r][i].action)
              => steps[r][j].observation = steps[r][i].observation)
    /\ [][\A r \in Chats :
            Act(r) =>
                /\ UNCHANGED <<sessions, heap, log, running, checked>>
                /\ \A q \in Chats \ {r} :
                      UNCHANGED <<pc[q], steps[q], todo[q], output[q], result[q]>>]_vars

C17_Witness ==
    \E r \in Chats :
        /\ Len(steps[r]) = 2
        /\ steps[r][1].action = RefundCall("12345", <<"damaged">>)
        /\ steps[r][2].action = steps[r][1].action
        /\ steps[r][2].observation.status = "success"

(***************************************************************************)
(* C18.  process_refund reports success exactly for the orders that        *)
(* lookup_order finds: its payload has status "success" if and only if the *)
(* record of lookup_order has no "error" key, and then the amount is the   *)
(* total of that record and the refund id is "REF-" and the order id;      *)
(* otherwise the payload is an error.                                      *)
(***************************************************************************)
Succeeded(payload) == "status" \in DOMAIN payload /\ payload.status = "success"

C18_RefundOnlyForKnownOrders ==
    \A r \in Chats : \A i \in 1..Len(steps[r]) :
        steps[r][i].action.tool = "process_refund" =>
            LET order_id == steps[r][i].action.tool_input.order_id
                payload == steps[r][i].observation
            IN  \A days_ago \in DaysAgo, eta \in EtaDays :
                    LET order == lookup_order(order_id, days_ago, eta)
                    IN  /\ Succeeded(payload) <=> "error" \notin DOMAIN order
                        /\ Succeeded(payload) =>
                              /\ payload.amount = order.total
                              /\ payload.refund_id = <<"REF-", order_id>>
                        /\ ~Succeeded(payload) => DOMAIN payload = {"error"}

C18_Witness ==
    \E r \in Chats :
        /\ Len(steps[r]) = 2
        /\ steps[r][1].action = RefundCall("99999", <<"damaged">>)
        /\ DOMAIN steps[r][1].observation = {"error"}
        /\ steps[r][2].action.tool = "process_refund"
        /\ steps[r][2].action.tool_input.order_id = "67890"
        /\ steps[r][2].observation.amount = "$299.99"

(***************************************************************************)
(* C19.  A clear-session(s) that runs while a chat exchange on s is in     *)
(* flight never makes that exchange fail, and a chat that starts on s      *)
(* after the clear sees none of its turns: no exchange ends with the       *)
(* KeyError of a session id that is gone, and the history an exchange is   *)
(* given is the one of the exchanges completed on its session since the    *)
(* last clear.                                                             *)
(***************************************************************************)
KeyErrorText(s) == <<"'", s, "'">>

C19_ClearNeverBreaksChat ==
    \A r \in Chats :
        /\ pc[r] = "failed" => result[r].detail # KeyErrorText(sid[r])
        /\ (pc[r] = "thinking" /\ ~stale[r]) => Context(r).chat_history = log[sid[r]]

====
